---- MODULE Spec2Model ----
(***************************************************************************)
(* The document store of app/database/connection.py: DatabaseConnection,   *)
(* a process-wide singleton over a TinyDB table 'items' kept in one JSON   *)
(* file.                                                                   *)
(*                                                                         *)
(* What the TinyDB calls do is taken from TinyDB 4 with JSONStorage:       *)
(*  - every insert/update/remove reads the whole file, changes the table   *)
(*    and rewrites the whole file before it returns (JSONStorage.write     *)
(*    flushes and fsyncs), so the table lives in the file only;            *)
(*  - the table is a JSON object keyed by a private document id that is    *)
(*    larger than every key already there, so insert appends and all()     *)
(*    yields the documents in file order;                                  *)
(*  - search(cond) reads the file; the table's query cache is cleared by   *)
(*    every write, so while the store is open it answers as the file does  *)
(*    and it is left out;                                                  *)
(*  - update(fields, cond) does dict.update(fields) on every matching      *)
(*    document, remove(cond) drops every matching document;                *)
(*  - reading or writing after close() raises (closed file handle).        *)
(* db.storage.flush() is taken to complete without effect: the write has   *)
(* already reached the file when insert/update/remove returns.             *)
(*                                                                         *)
(* A document is a function from its keys to values.  created_at and       *)
(* updated_at hold the text datetime.isoformat() makes of a clock reading. *)
(* datetime.now() is the wall clock: it never runs backwards here, and two *)
(* readings may or may not fall on the same tick.                          *)
(***************************************************************************)
EXTENDS Integers, Sequences, FiniteSets, TLC

VARIABLES
    instance,       \* DatabaseConnection._instance is not None
    initialized,    \* _initialized
    opened,         \* the storage's file handle is open
    next_id,        \* _next_id (0 while the attribute does not exist)
    file,           \* the 'items' table in the JSON file: documents in file order
    now,            \* the last reading of the wall clock
    ret,            \* the last call and what it returned (the arguments are kept
                    \* for the calls that found their record)
    issued,         \* every id create_item has returned, in call order
    session_start,  \* Len(issued) when the running process started
    tasks           \* the request handlers of routers/items.py: task -> its position

vars == <<instance, initialized, opened, next_id, file, now, ret,
          issued, session_start, tasks>>

----------------------------------------------------------------------------
\* Bounds of the model.
MaxCreates == 2
MaxClock == 1

\* Clock ticks per second: a reading on a full second has microsecond = 0.
TicksPerSec == 2

EmptyMap == [k \in {} |-> 0]

\* item_id of get_item, update_item and delete_item.
QueryIds == {1, 2}

\* item_data of create_item: caller fields; the last one already carries the
\* keys the store sets itself.
CreateInputs ==
    { [name |-> "A", price |-> "9.99"],
      [name |-> "A", price |-> "9.99", id |-> 7, created_at |-> <<9>>, updated_at |-> <<9>>] }

\* update_data of update_item.
UpdateInputs ==
    { EmptyMap,
      [price |-> "12.0"],
      [id |-> 2],
      [created_at |-> <<9>>, updated_at |-> <<9>>] }

\* The requests in flight at the same time.
Tasks == {1, 2}

\* A handler that is not running: no request, or a request that waits for
\* the event loop.
Idle == [st |-> "idle", op |-> "", id |-> 0, data |-> EmptyMap, pc |-> "", rec |-> EmptyMap]

Pending == [st |-> "pending", op |-> "", id |-> 0, data |-> EmptyMap, pc |-> "", rec |-> EmptyMap]

----------------------------------------------------------------------------
\* Pure helpers.

\* datetime.isoformat(): the fraction is left out when microsecond = 0.
isoformat(t) ==
    IF t % TicksPerSec = 0 THEN <<t \div TicksPerSec>>
    ELSE <<t \div TicksPerSec, t % TicksPerSec>>

\* dict.update / item_data[k] = v: keys of p win, the others stay.
Merge(d, p) ==
    [k \in (DOMAIN d) \cup (DOMAIN p) |-> IF k \in DOMAIN p THEN p[k] ELSE d[k]]

RECURSIVE MaxOf(_)
MaxOf(S) ==
    IF S = {} THEN 0
    ELSE LET x == CHOOSE y \in S : TRUE
             m == MaxOf(S \ {x})
         IN IF S = {x} THEN x ELSE IF x > m THEN x ELSE m

\* item.get('id', 0)
IdOf(doc) == IF "id" \in DOMAIN doc THEN doc["id"] ELSE 0

\* Query: Item.id == item_id
Matches(doc, item_id) == "id" \in DOMAIN doc /\ doc["id"] = item_id

\* items_table.all()
table_all(f) == f

\* A search that forgets its condition.
table_search_all(f, item_id) == f

\* items_table.search(Item.id == item_id), read from the file
table_search(f, item_id) == SelectSeq(f, LAMBDA d : Matches(d, item_id))

\* A write that never reaches the file.
table_insert_lost(f, doc) == f

\* items_table.insert(item_data)
table_insert(f, doc) == Append(f, doc)

\* An update that replaces the document instead of merging into it.
table_update_replace(f, fields, item_id) ==
    [i \in 1..Len(f) |-> IF Matches(f[i], item_id) THEN fields ELSE f[i]]

\* An update done as remove-then-insert: the record moves to the end.
table_update_move(f, fields, item_id) ==
    SelectSeq(f, LAMBDA d : ~Matches(d, item_id))
        \o [i \in 1..Len(table_search(f, item_id)) |->
                Merge(table_search(f, item_id)[i], fields)]

\* items_table.update(update_data, Item.id == item_id)
table_update(f, fields, item_id) ==
    [i \in 1..Len(f) |-> IF Matches(f[i], item_id) THEN Merge(f[i], fields) ELSE f[i]]

\* A remove that stops at the first matching document.
table_remove_first(f, item_id) ==
    IF Len(table_search(f, item_id)) = 0 THEN f
    ELSE LET i == CHOOSE j \in 1..Len(f) :
                      Matches(f[j], item_id) /\ \A k \in 1..(j - 1) : ~Matches(f[k], item_id)
         IN SubSeq(f, 1, i - 1) \o SubSeq(f, i + 1, Len(f))

\* items_table.remove(Item.id == item_id)
table_remove(f, item_id) == SelectSeq(f, LAMBDA d : ~Matches(d, item_id))

\* A counter taken from the number of records instead of the largest id.
get_next_id_count(f) == Len(f) + 1

\* A counter that skips the id after the largest one.
get_next_id_skip(f) ==
    IF Len(f) = 0 THEN 1 ELSE MaxOf({IdOf(f[i]) : i \in 1..Len(f)}) + 2

\* _get_next_id
get_next_id(f) ==
    LET all_items == table_all(f)
    IN IF Len(all_items) = 0 THEN 1
       ELSE MaxOf({IdOf(all_items[i]) : i \in 1..Len(all_items)}) + 1

\* A counter that is never incremented.
bump_forgotten(n) == n

\* create_item: the counter after the record is stored
bump(n) == n + 1

\* A create that keeps the id and the times the caller put in the map.
stamp_keep(item_data, id, t1, t2) ==
    Merge([id |-> id, created_at |-> isoformat(t1), updated_at |-> isoformat(t2)], item_data)

\* create_item: item_data with the id and the two timestamps set
stamp(item_data, id, t1, t2) ==
    Merge(item_data, [id |-> id, created_at |-> isoformat(t1), updated_at |-> isoformat(t2)])

\* An update that leaves updated_at to the caller.
touch_skip(update_data, t) == update_data

\* update_item: update_data['updated_at'] = datetime.now().isoformat()
touch(update_data, t) == Merge(update_data, [updated_at |-> isoformat(t)])

\* get_item on file f: what it returns.
\* status "ok": a record, "none": None, "error": the read raised.
get_item(f, isOpen, item_id) ==
    IF ~isOpen
    THEN [status |-> "error", val |-> EmptyMap]
    ELSE LET result == table_search(f, item_id)
         IN IF Len(result) > 0
            THEN [status |-> "ok", val |-> result[1]]
            ELSE [status |-> "none", val |-> EmptyMap]

Result(op, id, data, status, val, list) ==
    [op |-> op, id |-> id, data |-> data, status |-> status, val |-> val, list |-> list]

----------------------------------------------------------------------------
Init ==
    /\ instance = FALSE
    /\ initialized = FALSE
    /\ opened = FALSE
    /\ next_id = 0
    /\ file = <<>>
    /\ now = 0
    /\ ret = Result("start", 0, EmptyMap, "ok", EmptyMap, <<>>)
    /\ issued = <<>>
    /\ session_start = 0
    /\ tasks = [t \in Tasks |-> Idle]

\* An open that runs the initialisation on every call.
Open_reinit ==
    /\ instance' = TRUE
    /\ initialized' = TRUE
    /\ opened' = TRUE
    /\ next_id' = get_next_id(file)
    /\ ret' = Result("open", 0, EmptyMap, IF initialized THEN "same" ELSE "init", EmptyMap, <<>>)
    /\ UNCHANGED <<file, now, issued, session_start, tasks>>

\* An open that reconnects when it finds the handle closed.
Open_reopen ==
    /\ instance' = TRUE
    /\ IF initialized /\ opened
       THEN /\ UNCHANGED <<initialized, opened, next_id>>
            /\ ret' = Result("open", 0, EmptyMap, "same", EmptyMap, <<>>)
       ELSE /\ initialized' = TRUE
            /\ opened' = TRUE
            /\ next_id' = get_next_id(file)
            /\ ret' = Result("open", 0, EmptyMap, "init", EmptyMap, <<>>)
    /\ UNCHANGED <<file, now, issued, session_start, tasks>>

\* DatabaseConnection() / get_db_connection(): __new__ and __init__.
Open ==
    /\ instance' = TRUE
    /\ IF initialized
       THEN /\ UNCHANGED <<initialized, opened, next_id>>
            /\ ret' = Result("open", 0, EmptyMap, "same", EmptyMap, <<>>)
       ELSE /\ initialized' = TRUE
            /\ opened' = TRUE
            /\ next_id' = get_next_id(file)
            /\ ret' = Result("open", 0, EmptyMap, "init", EmptyMap, <<>>)
    /\ UNCHANGED <<file, now, issued, session_start, tasks>>

\* create_item(item_data): the clock is read twice, then the insert.
CreateItem(item_data, t1, t2) ==
    /\ initialized
    /\ now <= t1 /\ t1 <= t2
    /\ now' = t2
    /\ IF opened
       THEN /\ Len(issued) < MaxCreates
            /\ LET rec == stamp(item_data, next_id, t1, t2)
               IN /\ file' = table_insert(file, rec)
                  /\ next_id' = bump(next_id)
                  /\ ret' = Result("create", next_id, item_data, "ok", rec, <<>>)
                  /\ issued' = Append(issued, next_id)
       ELSE /\ ret' = Result("create", 0, EmptyMap, "error", EmptyMap, <<>>)
            /\ UNCHANGED <<file, next_id, issued>>
    /\ UNCHANGED <<instance, initialized, opened, session_start, tasks>>

\* get_item(item_id)
GetItem(item_id) ==
    /\ initialized
    /\ LET g == get_item(file, opened, item_id)
       IN ret' = Result("get", IF g.status = "error" THEN 0 ELSE item_id, EmptyMap,
                        g.status, g.val, <<>>)
    /\ UNCHANGED <<instance, initialized, opened, next_id, file, now,
                   issued, session_start, tasks>>

\* get_all_items()
GetAllItems ==
    /\ initialized
    /\ ret' = IF opened
              THEN Result("get_all", 0, EmptyMap, "ok", EmptyMap, table_all(file))
              ELSE Result("get_all", 0, EmptyMap, "error", EmptyMap, <<>>)
    /\ UNCHANGED <<instance, initialized, opened, next_id, file, now,
                   issued, session_start, tasks>>

\* update_item(item_id, update_data): the clock is read only when the record
\* was found.
UpdateItem(item_id, update_data, t) ==
    /\ initialized
    /\ now <= t
    /\ LET existing == get_item(file, opened, item_id)
       IN IF existing.status # "ok"
          THEN /\ t = now
               /\ ret' = Result("update", IF existing.status = "error" THEN 0 ELSE item_id,
                                EmptyMap, existing.status, EmptyMap, <<>>)
               /\ UNCHANGED <<file, now>>
          ELSE LET f2 == table_update(file, touch(update_data, t), item_id)
                   updated_item == get_item(f2, opened, item_id)
               IN /\ now' = t
                  /\ file' = f2
                  /\ ret' = Result("update", item_id, update_data,
                                   updated_item.status, updated_item.val, <<>>)
    /\ UNCHANGED <<instance, initialized, opened, next_id, issued, session_start, tasks>>

\* delete_item(item_id)
DeleteItem(item_id) ==
    /\ initialized
    /\ LET existing == get_item(file, opened, item_id)
       IN IF existing.status # "ok"
          THEN /\ ret' = IF existing.status = "none"
                         THEN Result("delete", item_id, EmptyMap, "false", EmptyMap, <<>>)
                         ELSE Result("delete", 0, EmptyMap, "error", EmptyMap, <<>>)
               /\ UNCHANGED file
          ELSE /\ file' = table_remove(file, item_id)
               /\ ret' = Result("delete", item_id, EmptyMap, "true", EmptyMap, <<>>)
    /\ UNCHANGED <<instance, initialized, opened, next_id, now, issued, session_start,
                   tasks>>

\* A close that fails on a handle that is already closed.
Close_strict ==
    /\ initialized
    /\ opened' = FALSE
    /\ ret' = Result("close", 0, EmptyMap, IF opened THEN "ok" ELSE "error", EmptyMap, <<>>)
    /\ UNCHANGED <<instance, initialized, next_id, file, now, issued, session_start,
                   tasks>>

\* close()
Close ==
    /\ initialized
    /\ opened' = FALSE
    /\ ret' = Result("close", 0, EmptyMap, "ok", EmptyMap, <<>>)
    /\ UNCHANGED <<instance, initialized, next_id, file, now, issued, session_start,
                   tasks>>

\* The process ends and a new one starts on the same file: the class
\* attributes are back at their initial values, the file is as it was left.
Restart ==
    /\ instance
    /\ instance' = FALSE
    /\ initialized' = FALSE
    /\ opened' = FALSE
    /\ next_id' = 0
    /\ session_start' = Len(issued)
    /\ ret' = Result("restart", 0, EmptyMap, "ok", EmptyMap, <<>>)
    /\ UNCHANGED <<file, now, issued, tasks>>

Next ==
    \/ Open
    \/ \E item_data \in CreateInputs, t1 \in now..MaxClock, t2 \in now..MaxClock :
          CreateItem(item_data, t1, t2)
    \/ \E item_id \in QueryIds : GetItem(item_id)
    \/ GetAllItems
    \/ \E item_id \in QueryIds, update_data \in UpdateInputs, t \in now..MaxClock :
          UpdateItem(item_id, update_data, t)
    \/ \E item_id \in QueryIds : DeleteItem(item_id)
    \/ Close
    \/ Restart

Spec == Init /\ [][Next]_vars

----------------------------------------------------------------------------
\* The request handlers of routers/items.py, served by one event loop
\* between the lifespan's startup (Open) and shutdown (Close).  A handler is
\* taken in the steps of the store method it calls: lookup, change of the
\* table and write of the file, counter increment.

\* ItemCreate.model_dump(): every field of the schema is present.
ApiCreateInputs == { [name |-> "A", description |-> "null", price |-> "9.99"] }

\* ItemUpdate.model_dump(exclude_unset=True): only the fields the request set.
ApiUpdateInputs == { EmptyMap, [price |-> "12.0"] }

ItemFields == {"id", "name", "description", "price", "created_at", "updated_at"}

\* pydantic reads created_at / updated_at into a datetime.
fromisoformat(s) ==
    IF Len(s) = 1 THEN s[1] * TicksPerSec ELSE s[1] * TicksPerSec + s[2]

\* Item(**doc) and its serialisation: the response model keeps the fields of
\* the schema, the two optional ones default to null, and the two times are
\* parsed and written out again.
to_Item(doc) ==
    [k \in ItemFields |->
        IF k \notin DOMAIN doc THEN "null"
        ELSE IF k \in {"created_at", "updated_at"} THEN isoformat(fromisoformat(doc[k]))
        ELSE doc[k]]

\* Handlers that run on threads of their own: any of them may run at any time.
may_run_threads(ts, t) == TRUE

\* The handlers are coroutines without an await in their bodies: the event
\* loop runs one from its first statement to its return before it takes up
\* another.
may_run(ts, t) == \A u \in Tasks \ {t} : ts[u].st # "running"

\* A handler that lets every update through.
never_empty(update_data) == FALSE

\* if not update_data
is_empty(update_data) == DOMAIN update_data = {}

\* A handler that answers with the success code whatever the store returned.
http_status_ok(op, found) ==
    IF op = "POST" THEN "201" ELSE IF op = "DELETE" THEN "204" ELSE "200"

\* status_code of the route, HTTP_404_NOT_FOUND when the store found nothing
http_status(op, found) ==
    IF ~found THEN "404"
    ELSE IF op = "POST" THEN "201" ELSE IF op = "DELETE" THEN "204" ELSE "200"

Running(op, id, data, pc, rec) ==
    [st |-> "running", op |-> op, id |-> id, data |-> data, pc |-> pc, rec |-> rec]

Serving == initialized /\ opened

AllIdle == \A t \in Tasks : tasks[t].st = "idle"

\* A request is accepted and waits for the event loop.
Arrive(t) ==
    /\ Serving
    /\ tasks[t].st = "idle"
    /\ tasks' = [tasks EXCEPT ![t] = Pending]
    /\ UNCHANGED <<instance, initialized, opened, next_id, file, now, ret,
                   issued, session_start>>

\* POST /: db.create_item(item.model_dump()) up to the stamped item_data.
PostBegin(t, item_data, t1, t2) ==
    /\ Serving
    /\ tasks[t].st = "pending"
    /\ may_run(tasks, t)
    /\ next_id <= MaxCreates
    /\ now <= t1 /\ t1 <= t2
    /\ now' = t2
    /\ tasks' = [tasks EXCEPT ![t] =
                    Running("POST", 0, item_data, "insert", stamp(item_data, next_id, t1, t2))]
    /\ UNCHANGED <<instance, initialized, opened, next_id, file, ret,
                   issued, session_start>>

\* POST /: items_table.insert(item_data) and the write of the file.
PostInsert(t) ==
    /\ tasks[t].st = "running" /\ tasks[t].op = "POST" /\ tasks[t].pc = "insert"
    /\ file' = table_insert(file, tasks[t].rec)
    /\ tasks' = [tasks EXCEPT ![t].pc = "bump"]
    /\ UNCHANGED <<instance, initialized, opened, next_id, now, ret,
                   issued, session_start>>

\* POST /: self._next_id += 1, then the 201 response Item(**created_item).
PostFinish(t) ==
    /\ tasks[t].st = "running" /\ tasks[t].op = "POST" /\ tasks[t].pc = "bump"
    /\ next_id' = bump(next_id)
    /\ ret' = Result("POST", tasks[t].rec["id"], tasks[t].data, http_status("POST", TRUE),
                     to_Item(tasks[t].rec), <<>>)
    /\ issued' = Append(issued, tasks[t].rec["id"])
    /\ tasks' = [tasks EXCEPT ![t] = Idle]
    /\ UNCHANGED <<instance, initialized, opened, file, now, session_start>>

\* GET /{item_id}
GetHandler(t, item_id) ==
    /\ Serving
    /\ tasks[t].st = "pending"
    /\ may_run(tasks, t)
    /\ LET item == get_item(file, opened, item_id)
       IN ret' = Result("GET", item_id, EmptyMap, http_status("GET", item.status = "ok"),
                        IF item.status = "ok" THEN to_Item(item.val) ELSE EmptyMap, <<>>)
    /\ tasks' = [tasks EXCEPT ![t] = Idle]
    /\ UNCHANGED <<instance, initialized, opened, next_id, file, now,
                   issued, session_start>>

\* GET /
GetAllHandler(t) ==
    /\ Serving
    /\ tasks[t].st = "pending"
    /\ may_run(tasks, t)
    /\ ret' = Result("GET_ALL", 0, EmptyMap, http_status("GET_ALL", TRUE), EmptyMap,
                     [i \in 1..Len(table_all(file)) |-> to_Item(table_all(file)[i])])
    /\ tasks' = [tasks EXCEPT ![t] = Idle]
    /\ UNCHANGED <<instance, initialized, opened, next_id, file, now,
                   issued, session_start>>

\* An update handler that asks the store for the record before it looks at
\* the map.
PutBegin_lookup_first(t, item_id, update_data) ==
    /\ Serving
    /\ tasks[t].st = "pending"
    /\ may_run(tasks, t)
    /\ IF get_item(file, opened, item_id).status # "ok"
       THEN /\ ret' = Result("PUT", item_id, update_data, "404", EmptyMap, <<>>)
            /\ tasks' = [tasks EXCEPT ![t] = Idle]
       ELSE IF DOMAIN update_data = {}
       THEN /\ ret' = Result("PUT", item_id, update_data, "400", EmptyMap, <<>>)
            /\ tasks' = [tasks EXCEPT ![t] = Idle]
       ELSE /\ tasks' = [tasks EXCEPT ![t] =
                            Running("PUT", item_id, update_data, "lookup", EmptyMap)]
            /\ UNCHANGED ret
    /\ UNCHANGED <<instance, initialized, opened, next_id, file, now,
                   issued, session_start>>

\* PUT /{item_id}: the empty map is answered 400 before the store is called.
PutBegin(t, item_id, update_data) ==
    /\ Serving
    /\ tasks[t].st = "pending"
    /\ may_run(tasks, t)
    /\ IF is_empty(update_data)
       THEN /\ ret' = Result("PUT", item_id, update_data, "400", EmptyMap, <<>>)
            /\ tasks' = [tasks EXCEPT ![t] = Idle]
       ELSE /\ tasks' = [tasks EXCEPT ![t] =
                            Running("PUT", item_id, update_data, "lookup", EmptyMap)]
            /\ UNCHANGED ret
    /\ UNCHANGED <<instance, initialized, opened, next_id, file, now,
                   issued, session_start>>

\* PUT /{item_id}: db.update_item, existing_item = self.get_item(item_id).
PutLookup(t) ==
    /\ tasks[t].st = "running" /\ tasks[t].op = "PUT" /\ tasks[t].pc = "lookup"
    /\ IF get_item(file, opened, tasks[t].id).status = "ok"
       THEN /\ tasks' = [tasks EXCEPT ![t].pc = "write"]
            /\ UNCHANGED ret
       ELSE /\ ret' = Result("PUT", tasks[t].id, tasks[t].data, http_status("PUT", FALSE),
                             EmptyMap, <<>>)
            /\ tasks' = [tasks EXCEPT ![t] = Idle]
    /\ UNCHANGED <<instance, initialized, opened, next_id, file, now,
                   issued, session_start>>

\* PUT /{item_id}: the timestamp, items_table.update and the write of the file.
PutWrite(t, tt) ==
    /\ tasks[t].st = "running" /\ tasks[t].op = "PUT" /\ tasks[t].pc = "write"
    /\ now <= tt
    /\ now' = tt
    /\ file' = table_update(file, touch(tasks[t].data, tt), tasks[t].id)
    /\ tasks' = [tasks EXCEPT ![t].pc = "reget"]
    /\ UNCHANGED <<instance, initialized, opened, next_id, ret,
                   issued, session_start>>

\* PUT /{item_id}: return self.get_item(item_id), then the response.
PutFinish(t) ==
    /\ tasks[t].st = "running" /\ tasks[t].op = "PUT" /\ tasks[t].pc = "reget"
    /\ LET updated_item == get_item(file, opened, tasks[t].id)
       IN ret' = Result("PUT", tasks[t].id, tasks[t].data,
                        http_status("PUT", updated_item.status = "ok"),
                        IF updated_item.status = "ok" THEN to_Item(updated_item.val)
                        ELSE EmptyMap, <<>>)
    /\ tasks' = [tasks EXCEPT ![t] = Idle]
    /\ UNCHANGED <<instance, initialized, opened, next_id, file, now,
                   issued, session_start>>

\* DELETE /{item_id}: db.delete_item, existing_item = self.get_item(item_id).
DeleteBegin(t, item_id) ==
    /\ Serving
    /\ tasks[t].st = "pending"
    /\ may_run(tasks, t)
    /\ IF get_item(file, opened, item_id).status = "ok"
       THEN /\ tasks' = [tasks EXCEPT ![t] =
                            Running("DELETE", item_id, EmptyMap, "remove", EmptyMap)]
            /\ UNCHANGED ret
       ELSE /\ ret' = Result("DELETE", item_id, EmptyMap, http_status("DELETE", FALSE),
                             EmptyMap, <<>>)
            /\ tasks' = [tasks EXCEPT ![t] = Idle]
    /\ UNCHANGED <<instance, initialized, opened, next_id, file, now,
                   issued, session_start>>

\* DELETE /{item_id}: items_table.remove and the write of the file, then 204.
DeleteFinish(t) ==
    /\ tasks[t].st = "running" /\ tasks[t].op = "DELETE" /\ tasks[t].pc = "remove"
    /\ file' = table_remove(file, tasks[t].id)
    /\ ret' = Result("DELETE", tasks[t].id, EmptyMap, http_status("DELETE", TRUE),
                     EmptyMap, <<>>)
    /\ tasks' = [tasks EXCEPT ![t] = Idle]
    /\ UNCHANGED <<instance, initialized, opened, next_id, now,
                   issued, session_start>>

\* lifespan: the store is closed when no request is in flight any more.
Shutdown == AllIdle /\ Close

NextApi ==
    \/ Open
    \/ Shutdown
    \/ \E t \in Tasks : Arrive(t)
    \/ \E t \in Tasks, item_data \in ApiCreateInputs, t1 \in now..MaxClock, t2 \in now..MaxClock :
           PostBegin(t, item_data, t1, t2)
    \/ \E t \in Tasks : PostInsert(t)
    \/ \E t \in Tasks : PostFinish(t)
    \/ \E t \in Tasks, item_id \in QueryIds : GetHandler(t, item_id)
    \/ \E t \in Tasks : GetAllHandler(t)
    \/ \E t \in Tasks, item_id \in QueryIds, update_data \in ApiUpdateInputs :
           PutBegin(t, item_id, update_data)
    \/ \E t \in Tasks : PutLookup(t)
    \/ \E t \in Tasks, tt \in now..MaxClock : PutWrite(t, tt)
    \/ \E t \in Tasks : PutFinish(t)
    \/ \E t \in Tasks, item_id \in QueryIds : DeleteBegin(t, item_id)
    \/ \E t \in Tasks : DeleteFinish(t)

SpecApi == Init /\ [][NextApi]_vars

----------------------------------------------------------------------------
\* Helpers of the properties.

Ids(f) == {IdOf(f[i]) : i \in 1..Len(f)}

Matching(f, item_id) == {i \in 1..Len(f) : Matches(f[i], item_id)}

Created == ret.op = "create" /\ ret.status = "ok"

\* C1: starting from an empty store, the k-th create_item returns id k.
\* session_start = 0 says that no id had been issued when the running
\* process started, so it opened an empty store; the calls made between the
\* creates are not restricted.
C1_SequentialIds ==
    session_start = 0 =>
        /\ \A k \in 1..Len(issued) : issued[k] = k
        /\ Created => ret.val["id"] = Len(issued)

C1_Witness ==
    /\ session_start = 0
    /\ Created
    /\ Len(issued) = MaxCreates
    /\ ret.val["id"] = MaxCreates

C2_CreateStep ==
    (ret'.op = "create" /\ ret'.status = "ok") =>
        /\ \A k \in (session_start + 1)..Len(issued) : issued[k] # ret'.id
        /\ (ret.op = "open" /\ ret.status = "init") =>
              /\ \A x \in Ids(file) : x < ret'.id
              /\ Len(file) = 0 => ret'.id = 1
              /\ Len(file) > 0 => (ret'.id - 1) \in Ids(file)

C3_CounterFromFile ==
    (ret.op = "open" /\ ret.status = "init") =>
        /\ \A x \in Ids(file) : x < next_id
        /\ Len(file) = 0 => next_id = 1
        /\ Len(file) > 0 => (next_id - 1) \in Ids(file)

\* A reopen after ids up to the counter and beyond had been issued.
C3_Witness ==
    /\ ret.op = "open" /\ ret.status = "init"
    /\ Len(file) > 0
    /\ \E k \in 1..Len(issued) : issued[k] >= next_id

\* C4: every stored record has a strictly positive id and no two stored
\* records have the same id.
C4_IdsPositiveUnique ==
    /\ \A i \in 1..Len(file) : IdOf(file[i]) > 0
    /\ \A i, j \in 1..Len(file) : i # j => IdOf(file[i]) # IdOf(file[j])

C6_GetAfterCreate ==
    (Created /\ opened) =>
        LET g == get_item(file, opened, ret.id)
        IN g.status = "ok" /\ g.val = ret.val

\* C7: update_item merges: every record it finds gets P's value for every key
\* of P, keeps its value for every other key, and gets the time of the call as
\* updated_at (also when P names updated_at); the record returned is the
\* merged one.
C7_UpdateStep ==
    (ret'.op = "update" /\ Matching(file, ret'.id) # {} /\ opened) =>
        LET P == ret'.data
        IN /\ Len(file') = Len(file)
           /\ \A i \in Matching(file, ret'.id) :
                 /\ DOMAIN file'[i] = (DOMAIN file[i]) \cup (DOMAIN P) \cup {"updated_at"}
                 /\ \A k \in (DOMAIN P) \ {"updated_at"} : file'[i][k] = P[k]
                 /\ \A k \in (DOMAIN file[i]) \ ((DOMAIN P) \cup {"updated_at"}) :
                       file'[i][k] = file[i][k]
                 /\ file'[i]["updated_at"] = isoformat(now')
           /\ "id" \notin DOMAIN P =>
                 /\ ret'.status = "ok"
                 /\ \E i \in Matching(file, ret'.id) : ret'.val = file'[i]

\* C7: every update_item step that finds its record merges.
C7_Merge == [][C7_UpdateStep]_vars

\* update_item(id, {price: X}) has returned: price is X, the name is kept.
C7_Witness ==
    /\ ret.op = "update" /\ ret.status = "ok"
    /\ DOMAIN ret.data = {"price"}
    /\ ret.val["price"] = "12.0"
    /\ ret.val["name"] = "A"
    /\ ret.val["id"] = ret.id

\* C8: no update_item changes the created_at of a record.
C8_UpdateKeepsCreatedAt ==
    ret'.op = "update" =>
        /\ Len(file') = Len(file)
        /\ \A i \in 1..Len(file) : file'[i]["created_at"] = file[i]["created_at"]

\* C8: created_at is immutable under update_item, for any partial map.
C8_CreatedAtImmutable == [][C8_UpdateKeepsCreatedAt]_vars

\* C9: every update_item that finds its record leaves it with an updated_at
\* different from the one it had before the call.
C9_UpdateStep ==
    (ret'.op = "update" /\ opened) =>
        \A i \in Matching(file, ret'.id) : file'[i]["updated_at"] # file[i]["updated_at"]

\* C9: updated_at changes on every successful update.
C9_UpdatedAtChanges == [][C9_UpdateStep]_vars

\* C10: the record create_item returns has created_at = updated_at.
C10_SameTimestamp ==
    Created => ret.val["created_at"] = ret.val["updated_at"]


\* C11: delete_item(id) on an existing id returns True and removes the
\* record, so that get_item(id) directly afterwards finds nothing; a second
\* delete_item(id) directly after the first returns False.
C11_DeleteStep ==
    ret'.op = "delete" =>
        /\ (opened /\ ret'.id \in Ids(file)) =>
               /\ ret'.status = "true"
               /\ ret'.id \notin Ids(file')
               /\ get_item(file', opened', ret'.id).status = "none"
        /\ (ret.op = "delete" /\ ret.status = "true" /\ ret'.id = ret.id) =>
               ret'.status = "false"

C12_AbsentStep ==
    (ret'.op \in {"update", "delete"} /\ opened /\ ret'.id \notin Ids(file)) =>
        /\ ret'.op = "update" => ret'.status = "none"
        /\ ret'.op = "delete" => ret'.status = "false"
        /\ file' = file
        /\ next_id' = next_id

C12_NotFoundChangesNothing == [][C12_AbsentStep]_vars

\* An update answered None on a store that holds other records.
C12_Witness ==
    /\ ret.op = "update"
    /\ ret.status = "none"
    /\ ret.id \notin Ids(file)
    /\ Len(file) > 0

RECURSIVE IsSubseq(_, _)
IsSubseq(a, b) ==
    IF a = <<>> THEN TRUE
    ELSE IF b = <<>> THEN FALSE
    ELSE IF a[1] = b[1] THEN IsSubseq(Tail(a), Tail(b))
    ELSE IsSubseq(a, Tail(b))

\* C13: get_all_items returns the records in creation order: a create puts
\* its record after all the others, an update leaves every record at its
\* position, a delete keeps the order of the records that stay, and
\* get_all_items returns the records in the order of the file.
C13_OrderStep ==
    /\ (ret'.op = "create" /\ ret'.status = "ok") =>
           /\ Len(file') = Len(file) + 1
           /\ SubSeq(file', 1, Len(file)) = file
           /\ file'[Len(file')] = ret'.val
    /\ ret'.op = "update" =>
           /\ Len(file') = Len(file)
           /\ \A i \in 1..Len(file) :
                  IF Matches(file[i], ret'.id)
                  THEN \A k \in DOMAIN file[i] \ (DOMAIN ret'.data \cup {"updated_at"}) :
                           k \in DOMAIN file'[i] /\ file'[i][k] = file[i][k]
                  ELSE file'[i] = file[i]
    /\ ret'.op = "delete" => IsSubseq(file', file)
    /\ (ret'.op = "get_all" /\ ret'.status = "ok") => ret'.list = file'

C13_CreationOrder == [][C13_OrderStep]_vars

\* After create(A), create(B), update(A): get_all_items returns [A, B].
C13_Witness ==
    /\ ret.op = "get_all"
    /\ Len(ret.list) = 2
    /\ ret.list[1]["id"] = 1
    /\ ret.list[1]["price"] = "12.0"
    /\ ret.list[2]["id"] = 2

\* C14: an open after the first returns the instance that exists and does
\* not run the initialisation: the counter, the records and the handle stay
\* as they are; the initialisation runs only when it has not run before.
C14_OpenStep ==
    ret'.op = "open" =>
        /\ instance'
        /\ initialized =>
               /\ ret'.status = "same"
               /\ UNCHANGED <<initialized, opened, next_id, file>>
        /\ ret'.status = "init" => ~initialized

C14_OpenIdempotent == [][C14_OpenStep]_vars

\* A repeated open on a store whose counter is not what a fresh
\* initialisation would compute from the file.
C14_Witness ==
    /\ ret.op = "open"
    /\ ret.status = "same"
    /\ opened
    /\ next_id # get_next_id(file)

\* C16: close() on a store that is already closed completes without error
\* and leaves the file as it was.
C16_CloseStep ==
    (ret'.op = "close" /\ initialized /\ ~opened) =>
        /\ ret'.status = "ok"
        /\ file' = file
        /\ ~opened'

C16_CloseAgain == [][C16_CloseStep]_vars

\* A close has returned on a closed store that holds records.
C16_Witness ==
    /\ ret.op = "close"
    /\ ret.status = "ok"
    /\ ~opened
    /\ Len(file) > 0

C17_EmptyUpdate == ret'.op = "update" /\ ret'.status = "ok" /\ DOMAIN ret'.data = {}

\* C17: update_item(id, {}) on an existing record returns the current
\* record and leaves all of its fields and its updated_at unchanged.
C17_NoOpStep ==
    C17_EmptyUpdate =>
        /\ file' = file
        /\ ret'.val = get_item(file, opened, ret'.id).val

C17_EmptyUpdateNoOp == [][C17_NoOpStep]_vars

\* C17, as the code has it: update_item(id, {}) on an existing record keeps
\* every field but updated_at, which it sets to the time of the call, and
\* returns the record so changed.
C17_TouchStep ==
    C17_EmptyUpdate =>
        /\ Len(file') = Len(file)
        /\ \A i \in 1..Len(file) :
               file'[i] = IF Matches(file[i], ret'.id)
                          THEN Merge(file[i], [updated_at |-> isoformat(now')])
                          ELSE file[i]
        /\ ret'.val = Merge(get_item(file, opened, ret'.id).val,
                            [updated_at |-> isoformat(now')])

C17_EmptyUpdateTouches == [][C17_TouchStep]_vars

\* An empty update has given a record a new updated_at.
C17_Witness ==
    /\ ret.op = "update"
    /\ ret.status = "ok"
    /\ DOMAIN ret.data = {}
    /\ now = MaxClock
    /\ ret.val["updated_at"] = isoformat(now)
    /\ ret.val["created_at"] # isoformat(now)

\* C15: when several request handlers are in flight, at most one mutating
\* operation (the create, update or delete of a handler that has started
\* and not yet answered) is in progress, so that no step of one mutation
\* falls between the steps of another.
C15_CriticalSection ==
    Cardinality({t \in Tasks : tasks[t].st = "running"}) <= 1

\* A create has written its record and not yet incremented the counter
\* while a second request is waiting.
C15_Witness ==
    /\ tasks[1].st = "running"
    /\ tasks[1].op = "POST"
    /\ tasks[1].pc = "bump"
    /\ tasks[2].st = "pending"

\* The response carries the fields of the store's record as they are.
SameRecord(body, doc) ==
    \A k \in DOMAIN doc \cap ItemFields : k \in DOMAIN body /\ body[k] = doc[k]

\* A handler returns its response.
Responds == \E t \in Tasks : tasks[t].st # "idle" /\ tasks'[t].st = "idle"

\* C18: a PUT whose map of set fields is empty is answered 400 and never
\* reaches the store: no update handler runs a store step with an empty
\* map, and the answer leaves the records, every updated_at and the file
\* unchanged.
C18_EmptyPutStep ==
    /\ \A t \in Tasks :
           (tasks'[t].st = "running" /\ tasks'[t].op = "PUT") => DOMAIN tasks'[t].data # {}
    /\ (Responds /\ ret'.op = "PUT" /\ DOMAIN ret'.data = {}) =>
           /\ ret'.status = "400"
           /\ UNCHANGED <<file, next_id, now>>

C18_EmptyPutRejected == [][C18_EmptyPutStep]_vars

\* An empty update of a stored record has been answered 400.
C18_Witness ==
    /\ ret.op = "PUT"
    /\ ret.status = "400"
    /\ DOMAIN ret.data = {}
    /\ ret.id \in Ids(file)

\* C19: every create request returns an id that no create request returned
\* before, and at the time of the answer exactly one stored record has it,
\* also when the create requests are in flight at the same time.
C19_CreateStep ==
    issued' # issued =>
        /\ ret'.op = "POST"
        /\ ret'.status = "201"
        /\ \A k \in 1..Len(issued) : issued[k] # ret'.id
        /\ Cardinality(Matching(file', ret'.id)) = 1

C19_ConcurrentCreatesDistinct == [][C19_CreateStep]_vars

\* Two create requests have been answered, with ids 1 and 2, and each id
\* is on one stored record.
C19_Witness ==
    /\ issued = <<1, 2>>
    /\ ret.op = "POST"
    /\ ret.val["id"] = 2
    /\ Cardinality(Matching(file, 1)) = 1
    /\ Cardinality(Matching(file, 2)) = 1

\* C20: a get, a non-empty update and a delete of an absent id are answered
\* 404 and leave the store unchanged; a create is answered 201, a get and
\* an update of a stored id 200, each with the record the store returned,
\* and a delete of a stored id 204.
C20_ResponseStep ==
    Responds =>
        /\ ret'.op = "POST" =>
               /\ ret'.status = "201"
               /\ SameRecord(ret'.val, file'[Len(file')])
        /\ ret'.op = "GET" =>
               IF ret'.id \in Ids(file)
               THEN ret'.status = "200" /\ SameRecord(ret'.val, get_item(file, TRUE, ret'.id).val)
               ELSE ret'.status = "404"
        /\ (ret'.op = "PUT" /\ DOMAIN ret'.data # {}) =>
               IF ret'.id \in Ids(file)
               THEN ret'.status = "200" /\ SameRecord(ret'.val, get_item(file', TRUE, ret'.id).val)
               ELSE ret'.status = "404"
        /\ ret'.op = "DELETE" =>
               IF ret'.id \in Ids(file)
               THEN ret'.status = "204" /\ ret'.id \notin Ids(file')
               ELSE ret'.status = "404"
        /\ ret'.status = "404" => UNCHANGED <<file, next_id, now>>

C20_StatusMapping == [][C20_ResponseStep]_vars

\* A non-empty update of an absent id has been answered 404 on a store that
\* holds records.
C20_Witness ==
    /\ ret.op = "PUT"
    /\ ret.status = "404"
    /\ DOMAIN ret.data # {}
    /\ ret.id \notin Ids(file)
    /\ Len(file) > 0

\* C21: a successful update_item(id, P) or delete_item(id) leaves every
\* record with another id as it was and where it was among the others, and
\* delete_item(id) takes exactly one record out of the store.
C21_MutationStep ==
    /\ (ret'.op = "update" /\ opened /\ ret'.id \in Ids(file)) =>
           /\ Len(file') = Len(file)
           /\ \A i \in 1..Len(file) : IdOf(file[i]) # ret'.id => file'[i] = file[i]
    /\ (ret'.op = "delete" /\ ret'.status = "true") =>
           /\ LET rid == ret'.id
              IN file' = SelectSeq(file, LAMBDA d : IdOf(d) # rid)
           /\ Len(file') = Len(file) - 1

C21_OnlyAddressedRecord == [][C21_MutationStep]_vars

\* C22: within one session the next-id counter never decreases and is
\* greater than the id of every stored record; create_item adds exactly one
\* to it, and get_item, get_all_items, update_item and delete_item leave it
\* as it is.
C22_CounterStep ==
    /\ (initialized /\ initialized') => next_id' >= next_id
    /\ (ret'.op = "create" /\ ret'.status = "ok") => next_id' = next_id + 1
    /\ ret'.op \in {"get", "get_all", "update", "delete"} => next_id' = next_id
    /\ initialized' => \A i \in 1..Len(file') : IdOf(file'[i]) < next_id'

C22_CounterAboveIds == [][C22_CounterStep]_vars

\* C23: what get_all_items returns is strictly increasing in id, in every
\* reachable state.
C23_ListIncreasingInId ==
    LET items == table_all(file)
    IN \A i \in 1..Len(items) : \A j \in 1..Len(items) :
           i < j => IdOf(items[i]) < IdOf(items[j])

\* C24: for every map passed to create_item, also one that has the keys id,
\* created_at and updated_at, the record stored and returned has the
\* counter's value as id and times read from the clock during the call;
\* the other keys are the caller's.
C24_CreateStep ==
    (ret'.op = "create" /\ ret'.status = "ok") =>
        /\ ret'.val["id"] = next_id
        /\ \E t \in now..now' : ret'.val["created_at"] = isoformat(t)
        /\ ret'.val["updated_at"] = isoformat(now')
        /\ file'[Len(file')] = ret'.val
        /\ \A k \in DOMAIN ret'.data \ {"id", "created_at", "updated_at"} :
               ret'.val[k] = ret'.data[k]

C24_StoreDecidesIdAndTimes == [][C24_CreateStep]_vars

\* A create was given id 7 and times of its own, and the record has none of
\* them.
C24_Witness ==
    /\ Created
    /\ DOMAIN ret.data = {"name", "price", "id", "created_at", "updated_at"}
    /\ ret.val["id"] # ret.data["id"]
    /\ ret.val["created_at"] # ret.data["created_at"]
    /\ ret.val["updated_at"] # ret.data["updated_at"]
    /\ file[Len(file)] = ret.val

\* C25: a PUT with an empty map is answered 400 for every id, stored or not,
\* and never 404: the answer is given by the step that takes up the
\* request, before any lookup, and changes nothing in the store.
C25_EmptyPutStep ==
    (Responds /\ ret'.op = "PUT" /\ DOMAIN ret'.data = {}) =>
        /\ ret'.status = "400"
        /\ \E t \in Tasks : tasks[t].st = "pending" /\ tasks'[t].st = "idle"
        /\ UNCHANGED <<file, next_id, now, opened>>

C25_EmptyCheckFirst == [][C25_EmptyPutStep]_vars

\* An empty update of an id that no record has was answered 400.
C25_Witness ==
    /\ ret.op = "PUT"
    /\ ret.status = "400"
    /\ DOMAIN ret.data = {}
    /\ ret.id \notin Ids(file)

\* C26: close() leaves the singleton in place.  An open after a close
\* returns the closed instance without reopening the file or recomputing
\* the counter, and within one process a closed store stays closed
\* whatever is called.
C26_ClosedStep ==
    /\ ret'.op = "close" => (instance' = instance /\ initialized' = initialized)
    /\ (initialized /\ ~opened /\ ret'.op = "open") =>
           /\ ret'.status = "same"
           /\ instance'
           /\ UNCHANGED <<next_id, file>>
    /\ (initialized /\ ~opened /\ ret'.op # "restart") => (initialized' /\ ~opened')

C26_ClosedStaysClosed == [][C26_ClosedStep]_vars

\* An open after a close has returned the closed instance, with a counter
\* that a new initialisation would not compute from the file.
C26_Witness ==
    /\ ret.op = "open"
    /\ ret.status = "same"
    /\ initialized
    /\ ~opened
    /\ next_id # get_next_id(file)

====
